---- MODULE Spec2Model ----
(***************************************************************************)
(* A model of the check-mcp tool adapters: the session host                *)
(* (server/src/main.py with core/version.py, core/cve.py, core/product.py, *)
(* core/config.py, core/api.py) and the stdio host                         *)
(* (src/mcp_server_check/server.py).                                       *)
(*                                                                         *)
(* Python values are tagged records, so that None, a str and an int are    *)
(* different values that can be compared.  Text (a Python str holding      *)
(* JSON, an HTTP body, a returned string) is a sequence of lexemes: the    *)
(* JSON tokens of the text in order, white space left out.  An error       *)
(* string is a text of one lexeme.                                         *)
(***************************************************************************)
EXTENDS Integers, Sequences, FiniteSets, TLC

(***************************************************************************)
(* Python values                                                           *)
(***************************************************************************)
None == [t |-> "None"]
PyStr(s) == [t |-> "str", s |-> s]
PyInt(n) == [t |-> "int", n |-> n]
PyBool(b) == [t |-> "bool", b |-> b]
\* a float, kept as the text Python writes for it
PyFloat(repr) == [t |-> "float", repr |-> repr]
\* a dict keeps its items in insertion order: a sequence of <<key, value>>
PyDict(items) == [t |-> "dict", items |-> items]
PyList(elems) == [t |-> "list", elems |-> elems]

\* isinstance(v, str)
isinstance_str(v) == v.t = "str"

\* isinstance(v, int)
isinstance_int(v) == v.t = "int"

\* the truth value Python gives v in `if v:` / `not v`
truthy(v) ==
    CASE v.t = "None" -> FALSE
      [] v.t = "str"  -> v.s # ""
      [] v.t = "int"  -> v.n # 0
      [] v.t = "bool" -> v.b
      [] v.t = "float" -> v.repr # "0.0"
      [] v.t = "dict" -> v.items # <<>>
      [] v.t = "list" -> v.elems # <<>>

\* what an f-string writes for {v}
fstr(v) ==
    CASE v.t = "None" -> "None"
      [] v.t = "str"  -> v.s
      [] v.t = "int"  -> ToString(v.n)
      [] v.t = "bool" -> IF v.b THEN "True" ELSE "False"
      [] v.t = "float" -> v.repr

\* RemoveNone without the filter: every key is kept
RemoveNone_keep(params) == params

\* {k: v for k, v in params.items() if v is not None}
RemoveNone(params) ==
    [k \in {k \in DOMAIN params : params[k] # None} |-> params[k]]

\* the text of a sequence of lexemes
RECURSIVE Concat(_)
Concat(lex) == IF lex = <<>> THEN "" ELSE Head(lex) \o Concat(Tail(lex))

(***************************************************************************)
(* JSON: json.loads and json.dumps over lexemes                            *)
(***************************************************************************)
\* the string contents and the numbers that occur in the texts of the model
StringContents ==
    { "version", "1.2.3", "releases", "product_name", "nginx", "detail",
      "Not Found", "cve_id", "CVE-2024-0001", "references", "https://nvd",
      "CVE-2024-0002", "score" }
Numbers == 0 .. 3

Quote(s) == "\"" \o s \o "\""
IsStringToken(tok) == \E s \in StringContents : Quote(s) = tok
Unquote(tok) == CHOOSE s \in StringContents : Quote(s) = tok
IsNumberToken(tok) == \E n \in Numbers : ToString(n) = tok
NumberOf(tok) == CHOOSE n \in Numbers : ToString(n) = tok

\* d[k] = v on a dict's items: a key already there keeps its place
RECURSIVE DictSet(_, _, _)
DictSet(items, k, v) ==
    IF items = <<>> THEN << <<k, v>> >>
    ELSE IF Head(items)[1] = k THEN << <<k, v>> >> \o Tail(items)
    ELSE << Head(items) >> \o DictSet(Tail(items), k, v)

NoParse == [ok |-> FALSE]
Parsed(v, j) == [ok |-> TRUE, v |-> v, j |-> j]

\* the JSON decoder: the value that starts at lexeme i, and the place after it
RECURSIVE ParseValue(_, _), ParseElems(_, _, _), ParseMembers(_, _, _)
ParseValue(lex, i) ==
    IF i > Len(lex) THEN NoParse
    ELSE LET tok == lex[i] IN
         CASE IsStringToken(tok) -> Parsed(PyStr(Unquote(tok)), i + 1)
           [] IsNumberToken(tok) -> Parsed(PyInt(NumberOf(tok)), i + 1)
           [] tok = "null"  -> Parsed(None, i + 1)
           [] tok = "true"  -> Parsed(PyBool(TRUE), i + 1)
           [] tok = "false" -> Parsed(PyBool(FALSE), i + 1)
           [] tok = "[" ->
                IF i + 1 <= Len(lex) /\ lex[i + 1] = "]"
                THEN Parsed(PyList(<<>>), i + 2)
                ELSE ParseElems(lex, i + 1, <<>>)
           [] tok = "{" ->
                IF i + 1 <= Len(lex) /\ lex[i + 1] = "}"
                THEN Parsed(PyDict(<<>>), i + 2)
                ELSE ParseMembers(lex, i + 1, <<>>)
           [] OTHER -> NoParse

\* the elements of an array after "[" or ",", up to "]"
ParseElems(lex, i, acc) ==
    LET r == ParseValue(lex, i) IN
    IF ~r.ok \/ r.j > Len(lex) THEN NoParse
    ELSE IF lex[r.j] = "]" THEN Parsed(PyList(Append(acc, r.v)), r.j + 1)
    ELSE IF lex[r.j] = "," THEN ParseElems(lex, r.j + 1, Append(acc, r.v))
    ELSE NoParse

\* the members of an object after "{" or ",", up to "}"
ParseMembers(lex, i, acc) ==
    IF i + 1 > Len(lex) \/ ~IsStringToken(lex[i]) \/ lex[i + 1] # ":" THEN NoParse
    ELSE LET r == ParseValue(lex, i + 2)
             items == DictSet(acc, Unquote(lex[i]), r.v)
         IN  IF ~r.ok \/ r.j > Len(lex) THEN NoParse
             ELSE IF lex[r.j] = "}" THEN Parsed(PyDict(items), r.j + 1)
             ELSE IF lex[r.j] = "," THEN ParseMembers(lex, r.j + 1, items)
             ELSE NoParse

\* json.loads(text): the value, or JSONDecodeError
json_loads(lex) ==
    LET r == ParseValue(lex, 1) IN
    IF r.ok /\ r.j = Len(lex) + 1
    THEN [ok |-> TRUE, v |-> r.v]
    ELSE [ok |-> FALSE, exc |-> "JSONDecodeError", msg |-> "Expecting value"]

\* json.dumps(value, indent=2): the lexemes of the text
RECURSIVE json_dumps(_), DumpElems(_), DumpMembers(_)
json_dumps(v) ==
    CASE v.t = "None" -> <<"null">>
      [] v.t = "str"  -> <<Quote(v.s)>>
      [] v.t = "int"  -> <<ToString(v.n)>>
      [] v.t = "bool" -> IF v.b THEN <<"true">> ELSE <<"false">>
      [] v.t = "list" -> <<"[">> \o DumpElems(v.elems) \o <<"]">>
      [] v.t = "dict" -> <<"{">> \o DumpMembers(v.items) \o <<"}">>

DumpElems(elems) ==
    IF elems = <<>> THEN <<>>
    ELSE json_dumps(Head(elems))
         \o (IF Len(elems) > 1 THEN <<",">> ELSE <<>>)
         \o DumpElems(Tail(elems))

DumpMembers(items) ==
    IF items = <<>> THEN <<>>
    ELSE <<Quote(Head(items)[1]), ":">> \o json_dumps(Head(items)[2])
         \o (IF Len(items) > 1 THEN <<",">> ELSE <<>>)
         \o DumpMembers(Tail(items))

(***************************************************************************)
(* Configuration (core/config.py) and the session identifier (main.py)     *)
(***************************************************************************)
release_endpoint == "/checks/release"
product_endpoint == "/checks/product"
cve_endpoint == "/checks/cve"

\* the environments the process may start in: OPSIFY_API_KEY unset, empty or
\* set; OPSIFY_API_BASE_URL empty or set; TRANSPORT; PORT (always an int:
\* int(os.getenv("PORT", "8050")))
Configs ==
    [ api_key   : {None, PyStr(""), PyStr("secret")},
      base_url  : {PyStr(""), PyStr("https://api.opsify.dev")},
      transport : {PyStr("sse"), PyStr("stdio"), PyStr("http")},
      port      : {PyInt(0), PyInt(1), PyInt(8050), PyInt(65535), PyInt(65536)} ]

\* validate_config without the check of the port
validate_config_noport(cfg) ==
    IF ~truthy(cfg.api_key)
    THEN "OPSIFY_API_KEY environment variable is not set"
    ELSE IF ~truthy(cfg.base_url)
    THEN "OPSIFY_API_BASE_URL environment variable is not set"
    ELSE IF cfg.transport \notin {PyStr("sse"), PyStr("stdio")}
    THEN "TRANSPORT must be either 'sse' or 'stdio'"
    ELSE "ok"

\* Config.validate_config: "ok", or the message of the ValueError it raises
validate_config(cfg) ==
    IF ~truthy(cfg.api_key)
    THEN "OPSIFY_API_KEY environment variable is not set"
    ELSE IF ~truthy(cfg.base_url)
    THEN "OPSIFY_API_BASE_URL environment variable is not set"
    ELSE IF cfg.transport \notin {PyStr("sse"), PyStr("stdio")}
    THEN "TRANSPORT must be either 'sse' or 'stdio'"
    ELSE IF ~isinstance_int(cfg.port) \/ cfg.port.n < 1 \/ cfg.port.n > 65535
    THEN "PORT must be a valid port number between 1 and 65535"
    ELSE "ok"

\* str(uuid.uuid4()): 8-4-4-4-12 lower-case hexadecimal characters
UUIDs ==
    { << "3","f","2","5","0","4","e","0", "-", "4","f","8","9", "-",
         "4","1","d","3", "-", "9","a","0","c", "-",
         "0","3","0","5","e","8","2","c","3","3","0","1" >>,
      << "a","0","e","e","b","c","9","9", "-", "9","c","0","b", "-",
         "4","e","f","8", "-", "b","b","6","d", "-",
         "6","b","b","9","b","d","3","8","0","a","1","1" >> }

\* str.lower() of one character
Lower(ch) ==
    CASE ch = "A" -> "a" [] ch = "B" -> "b" [] ch = "C" -> "c"
      [] ch = "D" -> "d" [] ch = "E" -> "e" [] ch = "F" -> "f"
      [] OTHER -> ch

\* s[a:b] of a sequence of characters (0-based, b exclusive, clipped)
Slice(s, a, b) ==
    SubSeq(s, a + 1, IF b < Len(s) THEN b ELSE Len(s))

format_session_id(session_id) ==
    LET nohyphen == SelectSeq(session_id, LAMBDA ch : ch # "-")
        clean_id == [i \in 1 .. Len(nohyphen) |-> Lower(nohyphen[i])]
    IN  Slice(clean_id, 0, 8) \o <<"-">> \o Slice(clean_id, 8, 12) \o <<"-">>
        \o Slice(clean_id, 12, 16) \o <<"-">> \o Slice(clean_id, 16, 20)
        \o <<"-">> \o Slice(clean_id, 20, Len(clean_id))

(***************************************************************************)
(* State                                                                   *)
(***************************************************************************)
\* the calls that may be in progress at once are numbered 1 .. MaxInFlight
MaxInFlight == 2
Calls == 1 .. MaxInFlight

VARIABLES
    host,        \* the program that runs: "session" (main.py) or "stdio" (server.py)
    config,      \* the Config singleton, read from the environment at import
    server,      \* the lifespan of the session host: "starting", "serving", "aborted"
    session_id,  \* DemoContext.session_id, None before the lifespan sets it
    pc,          \* per call: "idle", "awaiting" (suspended on the network) or "done"
    call,        \* per call: the tool called, what the caller supplied, the bound args
    request,     \* per call: the HTTP request it issued, NoRequest before
    sent,        \* per call: how many HTTP requests it has issued
    response,    \* per call: what came back for its request, NoResponse before
    result,      \* per call: what the handler returned or raised, NoResult before
    open         \* the calls whose HTTP client (connection resource) is open

vars == << host, config, server, session_id, pc, call, request, sent,
           response, result, open >>

NoCall == [tool |-> "none"]
NoRequest == [method |-> "none"]
NoResponse == [kind |-> "none"]
NoResult == [kind |-> "none"]

Init ==
    /\ host \in {"session", "stdio"}
    /\ config \in Configs
    /\ host = "stdio" => config = [api_key |-> None,
                                   base_url |-> PyStr("https://api.opsify.dev"),
                                   transport |-> PyStr("sse"), port |-> PyInt(8050)]
    /\ server = "starting"
    /\ session_id = None
    /\ pc = [c \in Calls |-> "idle"]
    /\ call = [c \in Calls |-> NoCall]
    /\ request = [c \in Calls |-> NoRequest]
    /\ sent = [c \in Calls |-> 0]
    /\ response = [c \in Calls |-> NoResponse]
    /\ result = [c \in Calls |-> NoResult]
    /\ open = {}

\* lifespan (main.py): validate the configuration, then generate the session
\* identifier and yield the context; a ValueError is printed and re-raised
lifespan ==
    /\ host = "session"
    /\ server = "starting"
    /\ IF validate_config(config) = "ok"
       THEN /\ \E u \in UUIDs : session_id' = PyStr(Concat(format_session_id(u)))
            /\ server' = "serving"
       ELSE /\ server' = "aborted"
            /\ UNCHANGED session_id
    /\ UNCHANGED << host, config, pc, call, request, sent, response, result, open >>

(***************************************************************************)
(* The upstream: what may come back for one HTTP request                   *)
(***************************************************************************)
BodyVersion == << "{", Quote("version"), ":", Quote("1.2.3"), "}" >>
BodyDetail == << "{", Quote("detail"), ":", Quote("Not Found"), "}" >>
BodyCVEs ==
    << "[", "{", Quote("cve_id"), ":", Quote("CVE-2024-0001"), ",",
       Quote("references"), ":", "[", Quote("https://nvd"), "]", "}", "]" >>
BodyTwoCVEs ==
    << "[", "{", Quote("cve_id"), ":", Quote("CVE-2024-0001"), ",",
       Quote("references"), ":", "[", Quote("https://nvd"), "]", "}", ",",
       "{", Quote("cve_id"), ":", Quote("CVE-2024-0002"), ",",
       Quote("score"), ":", "3", "}", "]" >>
\* an object with null, booleans, a number, a nested array and a repeated key
BodyMixed ==
    << "{", Quote("version"), ":", "null", ",",
       Quote("releases"), ":", "[", "true", ",", "false", ",", "0", "]", ",",
       Quote("version"), ":", Quote("1.2.3"), "}" >>
BodyEmptyList == << "[", "]" >>
BodyHtml == << "<html>" >>
BodyEmpty == << >>
Bodies ==
    { BodyVersion, BodyDetail, BodyCVEs, BodyTwoCVEs, BodyMixed, BodyEmptyList,
      BodyHtml, BodyEmpty }

\* a transport failure that the client library raises as its own error class
\* (aiohttp.ClientError, httpx.TransportError); the total timeout of the
\* client expiring (aiohttp raises asyncio.TimeoutError, httpx a
\* TimeoutException); or a response that arrived whole
Outcomes ==
    { [kind |-> "ClientError", msg |-> "Cannot connect to host"],
      [kind |-> "TimeoutError", msg |-> ""] }
    \cup [ kind : {"response"}, status : {200, 204, 404, 500},
           content_type : {"application/json", "text/html"}, body : Bodies ]

ok(v) == [ok |-> TRUE, v |-> v]
raised(exc, msg) == [ok |-> FALSE, exc |-> exc, msg |-> msg]

\* aiohttp's ClientResponse.json(): ContentTypeError (a ClientError) unless the
\* content type is JSON, None for a blank body, else json.loads of the body
response_json(resp) ==
    IF resp.content_type # "application/json"
    THEN raised("ClientError",
                "Attempt to decode JSON with unexpected mimetype: "
                    \o resp.content_type)
    ELSE IF resp.body = <<>> THEN ok(None)
    ELSE json_loads(resp.body)

\* VersionAPIError.__init__: str(e) of the exception
VersionAPIError(status_code, message) ==
    raised("VersionAPIError",
           "API Error " \o ToString(status_code) \o ": " \o message)

\* the exception classes `except VersionError` catches
IsVersionError(exc) == exc \in {"VersionError", "VersionAPIError"}

\* resend with a retry after a failed attempt
resend_on_failure(o) ==
    IF o.kind # "response" \/ o.status >= 400 THEN 1 ELSE 0

\* how many more times _make_request sends the request after outcome o of an
\* attempt: there is no loop around the request
resend(o) == 0

\* _make_request without the check of the status
_make_request_nostatus(o) ==
    IF o.kind = "ClientError" THEN raised("VersionError", "Network error: " \o o.msg)
    ELSE IF o.kind = "TimeoutError" THEN raised("TimeoutError", o.msg)
    ELSE LET r == response_json(o) IN
         IF r.ok THEN r
         ELSE IF r.exc = "ClientError"
         THEN raised("VersionError", "Network error: " \o r.msg)
         ELSE raised("VersionError", "Invalid JSON response: " \o r.msg)

\* _make_request from the point where the request comes back with outcome o:
\* the parsed JSON, or the exception that leaves the function
_make_request(o) ==
    IF o.kind = "ClientError" THEN raised("VersionError", "Network error: " \o o.msg)
    ELSE IF o.kind = "TimeoutError" THEN raised("TimeoutError", o.msg)
    ELSE IF o.status >= 400 THEN VersionAPIError(o.status, Concat(o.body))
    ELSE LET r == response_json(o) IN
         IF r.ok THEN r
         ELSE IF r.exc = "ClientError"
         THEN raised("VersionError", "Network error: " \o r.msg)
         ELSE raised("VersionError", "Invalid JSON response: " \o r.msg)

\* release that closes the client only when the block ends without an exception
release_on_success(clients, c, r) ==
    IF r.kind = "return" THEN clients \ {c} ELSE clients

\* release of one client that all the calls share: closing it closes it for
\* every call
release_shared(clients, c, r) == {}

\* `async with aiohttp.ClientSession() as session` / `async with
\* httpx.AsyncClient() as client`: the clients open once call c has left the
\* block with outcome r of the body (a value or an exception)
release(clients, c, r) == clients \ {c}

\* the request _make_request sends: base URL + endpoint, the two headers
Request(method, endpoint, params, json_data) ==
    [ method |-> method,
      url |-> fstr(config.base_url) \o endpoint,
      params |-> params,
      json |-> json_data,
      headers |-> [content_type |-> "application/json", apikey |-> config.api_key] ]

\* what a handler does up to its first suspension: it raises, returns, or
\* sends a request and awaits the response
Raise(exc, msg) == [kind |-> "raise", exc |-> exc, msg |-> msg]
Return(text) == [kind |-> "return", text |-> text]
Await(req) == [kind |-> "await", request |-> req]

\* except_VersionError that returns str(data), Python's own notation for the
\* value, in place of json.dumps(data)
except_VersionError_str(r) ==
    IF r.ok
    THEN Return([i \in 1 .. Len(json_dumps(r.v)) |->
                    CASE json_dumps(r.v)[i] = "null" -> "None"
                      [] json_dumps(r.v)[i] = "true" -> "True"
                      [] json_dumps(r.v)[i] = "false" -> "False"
                      [] OTHER -> json_dumps(r.v)[i]])
    ELSE IF IsVersionError(r.exc) THEN Return(<< "Error: " \o r.msg >>)
    ELSE Raise(r.exc, r.msg)

\* try: ... return json.dumps(data, indent=2)
\* except VersionError as e: return f"Error: {str(e)}"
except_VersionError(r) ==
    IF r.ok THEN Return(json_dumps(r.v))
    ELSE IF IsVersionError(r.exc) THEN Return(<< "Error: " \o r.msg >>)
    ELSE Raise(r.exc, r.msg)

(***************************************************************************)
(* The handlers up to their first suspension                               *)
(***************************************************************************)
\* what callers pass
Products == {"nginx"}
Versions == {PyStr("1.10"), PyInt(23)}
Vendors == {None, PyStr(""), PyStr("NGINX Inc")}
Dates == {"2024-04-15"}

\* f(**supplied) with the defaults of f's signature
Bind(defaults, supplied) ==
    [k \in DOMAIN defaults |->
        IF k \in DOMAIN supplied THEN supplied[k] ELSE defaults[k]]

Restrict(f, S) == [k \in S |-> f[k]]

\* the keyword arguments a caller may supply out of `sample`: none, any one,
\* all of them, or one of `odd`
Supplies(sample, odd) ==
    { Restrict(sample, S) :
        S \in {{}, DOMAIN sample} \cup {{k} : k \in DOMAIN sample} } \cup odd

\* if vendor: endpoint = f"{endpoint}?vendor={vendor}"
with_vendor(endpoint, vendor) ==
    IF truthy(vendor) THEN endpoint \o "?vendor=" \o fstr(vendor) ELSE endpoint

TypeError_version ==
    Raise("TypeError", "Version must be provided as a string, e.g., '1.23' not 1.23")

get_latest_version_begin(product_name, vendor) ==
    Await(Request("GET",
        with_vendor(release_endpoint \o "/" \o product_name \o "/latest", vendor),
        None, None))

get_versions_begin(product_name, vendor) ==
    Await(Request("GET",
        with_vendor(release_endpoint \o "/" \o product_name, vendor),
        None, None))

get_specific_version_begin(product_name, version, vendor) ==
    IF ~isinstance_str(version) THEN TypeError_version
    ELSE Await(Request("GET",
            with_vendor(release_endpoint \o "/" \o product_name \o "/"
                            \o fstr(version), vendor),
            None, None))

create_version_begin(product_name, version, date) ==
    IF ~isinstance_str(version) THEN TypeError_version
    ELSE Await(Request("POST", release_endpoint, None,
            PyDict(<< <<"product_name", PyStr(product_name)>>,
                      <<"version", version>>,
                      <<"release_date", PyStr(date)>>,
                      <<"active_support_end_date", PyStr(date)>>,
                      <<"security_support_end_date", PyStr(date)>>,
                      <<"eol_date", PyStr(date)>> >>)))

update_version_begin(product_name, version, date) ==
    IF ~isinstance_str(version) THEN TypeError_version
    ELSE Await(Request("PUT",
            release_endpoint \o "/" \o product_name \o "/" \o fstr(version),
            None,
            PyDict(<< <<"release_date", PyStr(date)>>,
                      <<"active_support_end_date", PyStr(date)>>,
                      <<"security_support_end_date", PyStr(date)>>,
                      <<"eol_date", PyStr(date)>> >>)))

delete_version_begin(product_name, version) ==
    Await(Request("DELETE",
        release_endpoint \o "/" \o product_name \o "/" \o fstr(version),
        None, None))

get_version_cves_begin(product_name, version, vendor) ==
    IF ~isinstance_str(version)
    THEN Raise("TypeError",
               "Version must be provided as a string, e.g., '1.0.0' not 1.0")
    ELSE Await(Request("GET",
            with_vendor(release_endpoint \o "/" \o product_name \o "/"
                            \o fstr(version) \o "/cves", vendor),
            None, None))

\* params = {"page": page, "page_size": page_size}; the two optional filters
\* are added when truthy
listing_params(a) ==
    LET p0 == [page |-> a.page, page_size |-> a.page_size]
        p1 == IF truthy(a.product_name)
              THEN ("product_name" :> a.product_name) @@ p0 ELSE p0
    IN  IF truthy(a.vendor) THEN ("vendor" :> a.vendor) @@ p1 ELSE p1

ListingDefaults ==
    [product_name |-> None, vendor |-> None, page |-> PyInt(1),
     page_size |-> PyInt(100)]
ListingSupplied ==
    Supplies([product_name |-> PyStr("nginx"), vendor |-> PyStr("NGINX Inc"),
              page |-> PyInt(2), page_size |-> PyInt(50)],
             { [product_name |-> PyStr("")], [vendor |-> None] })

get_all_versions_begin(a) ==
    Await(Request("GET", release_endpoint, listing_params(a), None))

get_all_latest_versions_begin(a) ==
    Await(Request("GET", release_endpoint \o "/latest", listing_params(a), None))

\* the `releases` strings callers pass: the three documented shapes, and
\* texts that are not JSON
Release ==
    << "{", Quote("product_name"), ":", Quote("nginx"), ",",
       Quote("version"), ":", Quote("1.2.3"), "}" >>
PayloadArray == << "[" >> \o Release \o << "," >> \o Release \o << "]" >>
PayloadObject == Release
PayloadWrapped == << "{", Quote("releases"), ":", "[" >> \o Release \o << "]", "}" >>
Payloads ==
    { PayloadArray, PayloadObject, PayloadWrapped,
      << "not json" >>, << "[" >> \o Release, << >> }

\* load_versions that sends the string as it came, without parsing it first
load_versions_unparsed(releases) ==
    Await(Request("POST", release_endpoint \o "/load", None,
                  PyStr(Concat(releases))))

\* load_versions that unwraps the array under `releases`
load_versions_unwrap(releases) ==
    LET releases_data == json_loads(releases) IN
    IF ~releases_data.ok
    THEN Return(<< "Error: Invalid JSON format - " \o releases_data.msg >>)
    ELSE Await(Request("POST", release_endpoint \o "/load", None,
            IF releases_data.v.t = "dict"
               /\ \E i \in 1 .. Len(releases_data.v.items) :
                    releases_data.v.items[i][1] = "releases"
            THEN (CHOOSE it \in {releases_data.v.items[i] :
                                    i \in 1 .. Len(releases_data.v.items)} :
                    it[1] = "releases")[2]
            ELSE releases_data.v))

load_versions_begin(releases) ==
    LET releases_data == json_loads(releases) IN
    IF ~releases_data.ok
    THEN Return(<< "Error: Invalid JSON format - " \o releases_data.msg >>)
    ELSE Await(Request("POST", release_endpoint \o "/load", None, releases_data.v))

SearchReleasesDefaults ==
    [vendor |-> None, product_name |-> None, from_date |-> None,
     to_date |-> None, date_field |-> PyStr("release_date"),
     page |-> PyInt(1), page_size |-> PyInt(100)]
SearchReleasesSupplied ==
    Supplies([vendor |-> PyStr("NGINX Inc"), product_name |-> PyStr("nginx"),
              from_date |-> PyStr("2024-01-01"), to_date |-> PyStr("2024-12-31"),
              date_field |-> PyStr("eol_date"), page |-> PyInt(2),
              page_size |-> PyInt(50)],
             { [vendor |-> None], [product_name |-> PyStr("")] })

search_releases_begin(a) ==
    Await(Request("GET", release_endpoint \o "/search",
        RemoveNone([vendor |-> a.vendor, product_name |-> a.product_name,
                    from_date |-> a.from_date, to_date |-> a.to_date,
                    date_field |-> a.date_field,
                    page |-> PyStr(fstr(a.page)),
                    page_size |-> PyStr(fstr(a.page_size))]),
        None))

\* search_cve (core/cve.py)
SearchCVEDefaults ==
    [cve_id |-> None, title |-> None, state |-> None, priority |-> None,
     severity |-> None, score |-> None, product_name |-> None,
     product_version |-> None, vendor |-> None, from_date |-> None,
     to_date |-> None, skip |-> PyInt(0), limit |-> PyInt(100)]
SearchCVESample ==
    [cve_id |-> PyStr("CVE-2024-0001"), title |-> PyStr("overflow"),
     state |-> PyStr("PUBLISHED"), priority |-> PyStr("high"),
     severity |-> PyStr("critical"), score |-> PyFloat("7.5"),
     product_name |-> PyStr("nginx"), product_version |-> PyStr("1.10"),
     vendor |-> PyStr("NGINX Inc"), from_date |-> PyStr("2024-01-01"),
     to_date |-> PyStr("2024-12-31"), skip |-> PyInt(5), limit |-> PyInt(20)]
SearchCVESupplied ==
    Supplies(SearchCVESample, { [cve_id |-> None], [vendor |-> PyStr("")] })

search_cve_begin(a) ==
    Await(Request("GET", cve_endpoint \o "/search",
        RemoveNone([cve_id |-> a.cve_id, title |-> a.title, state |-> a.state,
                    priority |-> a.priority, severity |-> a.severity,
                    score |-> a.score, product_name |-> a.product_name,
                    product_version |-> a.product_version, vendor |-> a.vendor,
                    from_date |-> a.from_date, to_date |-> a.to_date,
                    skip |-> a.skip, limit |-> a.limit]),
        None))

\* create_product (core/product.py)
CreateProductDefaults ==
    [release_url |-> None, vendor_name |-> None, vendor_website |-> None]
CreateProductSupplied ==
    Supplies([release_url |-> PyStr("https://nginx.org/en/CHANGES"),
              vendor_name |-> PyStr("NGINX Inc"),
              vendor_website |-> PyStr("https://nginx.org")],
             { [vendor_name |-> PyStr("")] })

\* create_product that includes the vendor only when a vendor name is given
create_product_novendor(product_name, a) ==
    Await(Request("POST", product_endpoint, None,
        PyDict(<< <<"name", PyStr(product_name)>>,
                  <<"release_url", a.release_url>> >>
               \o IF truthy(a.vendor_name)
                  THEN << <<"vendor",
                            PyDict(<< <<"name", a.vendor_name>>,
                                      <<"website", a.vendor_website>> >>)>> >>
                  ELSE << >>)))

create_product_begin(product_name, a) ==
    Await(Request("POST", product_endpoint, None,
        PyDict(<< <<"name", PyStr(product_name)>>,
                  <<"release_url", a.release_url>>,
                  <<"vendor",
                    PyDict(<< <<"name", IF truthy(a.vendor_name)
                                        THEN a.vendor_name ELSE PyStr("")>>,
                              <<"website", IF truthy(a.vendor_website)
                                           THEN a.vendor_website ELSE PyStr("")>>
                           >>)>> >>)))

\* the stdio host (mcp_server_check/server.py)
API_URL == "https://api.opsify.dev/checks/cve"
INVALID_PARAMS == "INVALID_PARAMS"
INTERNAL_ERROR == "INTERNAL_ERROR"
McpError(code, message) ==
    [ok |-> FALSE, exc |-> "McpError", code |-> code, msg |-> message]
RaiseMcpError(e) == [kind |-> "raise", exc |-> e.exc, code |-> e.code, msg |-> e.msg]

SearchCVEParamsDefaults ==
    [cve_id |-> None, title |-> None, state |-> None, priority |-> None,
     severity |-> None, score |-> None, product_name |-> None,
     product_version |-> None, vendor |-> None, from_date |-> None,
     to_date |-> None, skip |-> PyInt(0), limit |-> PyInt(10)]
\* the `arguments` a client may send: as for the session host's search_cve,
\* and values of the wrong type
CallToolArguments ==
    SearchCVESupplied
    \cup { [limit |-> PyStr("ten")], [cve_id |-> PyInt(2024)], [skip |-> None] }
ToolNames == {"search_cve", "get_latest_version"}

\* whether value v is accepted for field k of SearchCVEParams: every field is
\* Optional; Optional[str] takes a str, Optional[int] an int, Optional[float]
\* a float or an int
field_accepts(k, v) ==
    \/ v = None
    \/ k \in {"skip", "limit"} /\ v.t = "int"
    \/ k = "score" /\ v.t \in {"float", "int"}
    \/ k \notin {"skip", "limit", "score"} /\ v.t = "str"

\* SearchCVEParams(**arguments): the model, or the ValidationError
SearchCVEParams(arguments) ==
    IF \A k \in DOMAIN arguments \cap DOMAIN SearchCVEParamsDefaults :
            field_accepts(k, arguments[k])
    THEN ok(Bind(SearchCVEParamsDefaults, arguments))
    ELSE raised("ValidationError", "validation error for SearchCVEParams")

\* search_cve_api up to `await client.get(...)`
search_cve_api_begin(params) ==
    Await([ method |-> "GET", url |-> API_URL, params |-> RemoveNone(params),
            json |-> None, headers |-> [x_api_key |-> "API_KEY"],
            timeout |-> 30 ])

\* call_tool that hands the arguments to the adapter without validating them
call_tool_unvalidated(name, arguments) ==
    search_cve_api_begin(Bind(SearchCVEParamsDefaults, arguments))

\* call_tool that serves the advertised tool only
call_tool_known_only(name, arguments) ==
    LET args == SearchCVEParams(arguments) IN
    IF name # "search_cve"
    THEN RaiseMcpError(McpError(INVALID_PARAMS, "Unknown tool: " \o name))
    ELSE IF ~args.ok THEN RaiseMcpError(McpError(INVALID_PARAMS, args.msg))
    ELSE search_cve_api_begin(args.v)

\* call_tool up to its first suspension
call_tool_begin(name, arguments) ==
    LET args == SearchCVEParams(arguments) IN
    IF ~args.ok THEN RaiseMcpError(McpError(INVALID_PARAMS, args.msg))
    ELSE search_cve_api_begin(args.v)

\* OpsifyAPI (core/api.py), used as `async with OpsifyAPI() as api:
\* await api.get_component_version(name)`: __aenter__ makes the session,
\* get_component_version sends the request
get_component_version_begin(component_name) ==
    Await([ method |-> "GET",
            url |-> fstr(config.base_url) \o release_endpoint \o "/"
                        \o component_name,
            params |-> None, json |-> None,
            headers |-> [content_type |-> "application/json",
                         apikey |-> config.api_key] ])

(***************************************************************************)
(* The handlers from the response to their end                             *)
(***************************************************************************)
\* delete_version: the constructed envelope once _make_request has returned
delete_version_end(a, r) ==
    IF r.ok
    THEN Return(json_dumps(PyDict(<<
            <<"status", PyStr("success")>>,
            <<"message", PyStr("Version " \o fstr(a.version) \o " of product "
                                \o a.product_name \o " deleted successfully")>>
         >>)))
    ELSE except_VersionError(r)

\* create_product: except VersionError, then except Exception
create_product_end(r) ==
    IF r.ok \/ IsVersionError(r.exc) THEN except_VersionError(r)
    ELSE Return(<< "An unexpected error occurred: " \o r.msg >>)

\* search_cve_api from the response on: raise_for_status and resp.json()
\* inside `except Exception`
search_cve_api(o) ==
    LET Failed(msg) == McpError(INTERNAL_ERROR, "Failed to fetch CVEs: " \o msg) IN
    IF o.kind # "response" THEN Failed(o.msg)
    ELSE IF ~(200 <= o.status /\ o.status < 300)
    THEN Failed("HTTP status " \o ToString(o.status))
    ELSE LET r == json_loads(o.body) IN
         IF r.ok THEN r ELSE Failed(r.msg)

\* d.get(key, default) on a dict's items
RECURSIVE get(_, _, _)
get(items, key, default) ==
    IF items = <<>> THEN default
    ELSE IF Head(items)[1] = key THEN Head(items)[2]
    ELSE get(Tail(items), key, default)

\* sep.join(strs)
RECURSIVE join(_, _)
join(sep, strs) ==
    IF strs = <<>> THEN ""
    ELSE IF Len(strs) = 1 THEN strs[1]
    ELSE strs[1] \o sep \o join(sep, Tail(strs))

\* the text written for a value inside the summary: Python's str() of it;
\* for a list or a dict its JSON text stands in for Python's repr
show(v) == IF v.t \in {"list", "dict"} THEN Concat(json_dumps(v)) ELSE fstr(v)

\* one block of the summary
cve_block(cve) ==
    LET refs == get(cve.items, "references", PyList(<<>>)) IN
    "CVE ID: " \o show(get(cve.items, "cve_id", None))
    \o "\nTitle: " \o show(get(cve.items, "title", None))
    \o "\nScore: " \o show(get(cve.items, "score", None))
    \o "\nState: " \o show(get(cve.items, "state", None))
    \o "\nPublished: " \o show(get(cve.items, "published_date", None))
    \o "\nVendor: " \o show(get(cve.items, "vendor", None))
    \o "\nDescription: " \o show(get(cve.items, "description", None))
    \o "\nReferences: "
    \o join(", ", [i \in 1 .. Len(refs.elems) |-> refs.elems[i].s])

TextContent(text) == [type |-> "text", text |-> text]
ReturnContent(content) == [kind |-> "return", content |-> content]

\* whether the summary can be written for cves: a list of dicts whose
\* references are lists of strings
renders(cves) ==
    /\ cves.t = "list"
    /\ \A i \in 1 .. Len(cves.elems) :
        /\ cves.elems[i].t = "dict"
        /\ LET refs == get(cves.elems[i].items, "references", PyList(<<>>)) IN
           /\ refs.t = "list"
           /\ \A j \in 1 .. Len(refs.elems) : refs.elems[j].t = "str"

\* call_tool without the branch for an empty result
call_tool_end_nosentinel(r) ==
    IF ~r.ok THEN RaiseMcpError(r)
    ELSE IF renders(r.v)
    THEN ReturnContent(<< TextContent(
            "Found " \o ToString(Len(r.v.elems)) \o " CVEs:\n"
            \o join("\n\n", [i \in 1 .. Len(r.v.elems) |-> cve_block(r.v.elems[i])])) >>)
    ELSE Raise(IF r.v.t \in {"int", "bool", "float"} THEN "TypeError"
               ELSE "AttributeError", "")

\* call_tool once search_cve_api has returned or raised
call_tool_end(r) ==
    IF ~r.ok THEN RaiseMcpError(r)
    ELSE IF ~truthy(r.v)
    THEN ReturnContent(<< TextContent("No CVEs found for the given criteria.") >>)
    ELSE IF renders(r.v)
    THEN ReturnContent(<< TextContent(
            "Found " \o ToString(Len(r.v.elems)) \o " CVEs:\n"
            \o join("\n\n", [i \in 1 .. Len(r.v.elems) |-> cve_block(r.v.elems[i])])) >>)
    ELSE Raise(IF r.v.t \in {"int", "bool", "float"} THEN "TypeError"
               ELSE "AttributeError", "")

\* get_component_version from the response on: raise_for_status, then
\* response.json(); nothing is caught
get_component_version_end(o) ==
    IF o.kind # "response" THEN Raise(o.kind, o.msg)
    ELSE IF o.status >= 400
    THEN Raise("ClientResponseError", ToString(o.status))
    ELSE LET r == response_json(o) IN
         IF r.ok THEN [kind |-> "return", value |-> r.v] ELSE Raise(r.exc, r.msg)

SessionTools ==
    { "get_latest_version", "get_versions", "get_specific_version",
      "create_version", "update_version", "delete_version", "get_all_versions",
      "get_all_latest_versions", "load_versions", "search_releases",
      "get_version_cves", "search_cve", "create_product" }

\* what the handler of call cl returns or raises when outcome o comes back
finish(cl, o) ==
    CASE cl.tool = "delete_version" -> delete_version_end(cl.args, _make_request(o))
      [] cl.tool = "create_product" -> create_product_end(_make_request(o))
      [] cl.tool = "call_tool" -> call_tool_end(search_cve_api(o))
      [] cl.tool = "get_component_version" -> get_component_version_end(o)
      [] OTHER -> except_VersionError(_make_request(o))

(***************************************************************************)
(* Actions                                                                 *)
(***************************************************************************)
\* the session host serves tool calls inside the lifespan context
Serving == host = "session" /\ server = "serving"

\* call c runs handler `tool` up to its first suspension
Start(c, tool, supplied, args, step) ==
    /\ pc[c] = "idle"
    /\ call' = [call EXCEPT ![c] =
                    [tool |-> tool, supplied |-> supplied, args |-> args]]
    /\ IF step.kind = "await"
       THEN /\ pc' = [pc EXCEPT ![c] = "awaiting"]
            /\ request' = [request EXCEPT ![c] = step.request]
            /\ sent' = [sent EXCEPT ![c] = @ + 1]
            /\ open' = open \cup {c}
            /\ UNCHANGED result
       ELSE /\ pc' = [pc EXCEPT ![c] = "done"]
            /\ result' = [result EXCEPT ![c] = step]
            /\ UNCHANGED << request, sent, open >>
    /\ UNCHANGED << host, config, server, session_id, response >>

get_latest_version(c) ==
    /\ Serving
    /\ \E product_name \in Products, vendor \in Vendors :
        LET a == [product_name |-> product_name, vendor |-> vendor] IN
        Start(c, "get_latest_version", a, a,
              get_latest_version_begin(product_name, vendor))

get_versions(c) ==
    /\ Serving
    /\ \E product_name \in Products, vendor \in Vendors :
        LET a == [product_name |-> product_name, vendor |-> vendor] IN
        Start(c, "get_versions", a, a, get_versions_begin(product_name, vendor))

get_specific_version(c) ==
    /\ Serving
    /\ \E product_name \in Products, version \in Versions, vendor \in Vendors :
        LET a == [product_name |-> product_name, version |-> version,
                  vendor |-> vendor] IN
        Start(c, "get_specific_version", a, a,
              get_specific_version_begin(product_name, version, vendor))

create_version(c) ==
    /\ Serving
    /\ \E product_name \in Products, version \in Versions, date \in Dates :
        LET a == [product_name |-> product_name, version |-> version,
                  date |-> date] IN
        Start(c, "create_version", a, a,
              create_version_begin(product_name, version, date))

update_version(c) ==
    /\ Serving
    /\ \E product_name \in Products, version \in Versions, date \in Dates :
        LET a == [product_name |-> product_name, version |-> version,
                  date |-> date] IN
        Start(c, "update_version", a, a,
              update_version_begin(product_name, version, date))

delete_version(c) ==
    /\ Serving
    /\ \E product_name \in Products, version \in Versions :
        LET a == [product_name |-> product_name, version |-> version] IN
        Start(c, "delete_version", a, a,
              delete_version_begin(product_name, version))

get_version_cves(c) ==
    /\ Serving
    /\ \E product_name \in Products, version \in Versions, vendor \in Vendors :
        LET a == [product_name |-> product_name, version |-> version,
                  vendor |-> vendor] IN
        Start(c, "get_version_cves", a, a,
              get_version_cves_begin(product_name, version, vendor))

get_all_versions(c) ==
    /\ Serving
    /\ \E supplied \in ListingSupplied :
        LET a == Bind(ListingDefaults, supplied) IN
        Start(c, "get_all_versions", supplied, a, get_all_versions_begin(a))

get_all_latest_versions(c) ==
    /\ Serving
    /\ \E supplied \in ListingSupplied :
        LET a == Bind(ListingDefaults, supplied) IN
        Start(c, "get_all_latest_versions", supplied, a,
              get_all_latest_versions_begin(a))

load_versions(c) ==
    /\ Serving
    /\ \E releases \in Payloads :
        LET a == [releases |-> releases] IN
        Start(c, "load_versions", a, a, load_versions_begin(releases))

search_releases(c) ==
    /\ Serving
    /\ \E supplied \in SearchReleasesSupplied :
        LET a == Bind(SearchReleasesDefaults, supplied) IN
        Start(c, "search_releases", supplied, a, search_releases_begin(a))

search_cve(c) ==
    /\ Serving
    /\ \E supplied \in SearchCVESupplied :
        LET a == Bind(SearchCVEDefaults, supplied) IN
        Start(c, "search_cve", supplied, a, search_cve_begin(a))

create_product(c) ==
    /\ Serving
    /\ \E product_name \in Products, supplied \in CreateProductSupplied :
        LET a == Bind(CreateProductDefaults, supplied) IN
        Start(c, "create_product", supplied,
              [product_name |-> product_name] @@ a,
              create_product_begin(product_name, a))

get_component_version(c) ==
    /\ Serving
    /\ \E component_name \in Products :
        LET a == [component_name |-> component_name] IN
        Start(c, "get_component_version", a, a,
              get_component_version_begin(component_name))

\* the stdio host's call handler; it serves one call at a time
call_tool(c) ==
    /\ host = "stdio"
    /\ \A d \in Calls : pc[d] = "idle"
    /\ \E name \in ToolNames, arguments \in CallToolArguments :
        Start(c, "call_tool", arguments, [name |-> name],
              call_tool_begin(name, arguments))

\* outcome o of call c's request arrives, and the handler runs from there to
\* its end
arrive(c, o) ==
    /\ pc[c] = "awaiting"
    /\ response' = [response EXCEPT ![c] = o]
    /\ sent' = [sent EXCEPT ![c] = @ + resend(o)]
    /\ result' = [result EXCEPT ![c] = finish(call[c], o)]
    /\ open' = release(open, c, finish(call[c], o))
    /\ pc' = [pc EXCEPT ![c] = "done"]
    /\ UNCHANGED << host, config, server, session_id, call, request >>

\* the response (or the failure) of call c's request arrives
resume(c) == \E o \in Outcomes : arrive(c, o)

\* the host hands the outcome of call c to the client; the call is over
deliver(c) ==
    /\ pc[c] = "done"
    /\ pc' = [pc EXCEPT ![c] = "idle"]
    /\ call' = [call EXCEPT ![c] = NoCall]
    /\ request' = [request EXCEPT ![c] = NoRequest]
    /\ sent' = [sent EXCEPT ![c] = 0]
    /\ response' = [response EXCEPT ![c] = NoResponse]
    /\ result' = [result EXCEPT ![c] = NoResult]
    /\ UNCHANGED << host, config, server, session_id, open >>

\* no call is in progress
Quiet == \A d \in Calls : pc[d] = "idle"

\* every tool function and every outcome, one call at a time; the calls in
\* flight at once are the matter of SpecConcurrent below
Next ==
    \/ lifespan
    \/ \E c \in Calls :
        \/ Quiet /\ get_latest_version(c)
        \/ Quiet /\ get_versions(c)
        \/ Quiet /\ get_specific_version(c)
        \/ Quiet /\ create_version(c)
        \/ Quiet /\ update_version(c)
        \/ Quiet /\ delete_version(c)
        \/ Quiet /\ get_version_cves(c)
        \/ Quiet /\ get_all_versions(c)
        \/ Quiet /\ get_all_latest_versions(c)
        \/ Quiet /\ load_versions(c)
        \/ Quiet /\ search_releases(c)
        \/ Quiet /\ search_cve(c)
        \/ Quiet /\ create_product(c)
        \/ Quiet /\ get_component_version(c)
        \/ call_tool(c)
        \/ resume(c)
        \/ deliver(c)

Spec == Init /\ [][Next]_vars

(***************************************************************************)
(* The session host with calls in flight at once: the event loop runs a    *)
(* handler from one await to the next, and between the two any other call  *)
(* may start, resume or be delivered.  The calls are of three of the tools *)
(* main.py registers, and the upstream answers each with one of three      *)
(* outcomes.                                                               *)
(***************************************************************************)
ConcurrentOutcomes ==
    { [kind |-> "TimeoutError", msg |-> ""],
      [kind |-> "response", status |-> 200,
       content_type |-> "application/json", body |-> BodyVersion],
      [kind |-> "response", status |-> 404,
       content_type |-> "application/json", body |-> BodyDetail] }

resume_concurrent(c) == \E o \in ConcurrentOutcomes : arrive(c, o)

InitConcurrent == Init /\ host = "session"

NextConcurrent ==
    \/ lifespan
    \/ \E c \in Calls :
        \/ get_latest_version(c)
        \/ get_specific_version(c)
        \/ get_version_cves(c)
        \/ resume_concurrent(c)
        \/ deliver(c)

SpecConcurrent == InitConcurrent /\ [][NextConcurrent]_vars

(***************************************************************************)
(* Properties                                                              *)
(***************************************************************************)
VersionTools ==
    { "get_specific_version", "create_version", "update_version",
      "delete_version", "get_version_cves" }

\* C1: in every tool that takes a version identifier, a version that is not
\* a string makes the call fail with a TypeError, and no HTTP request is
\* issued for that call.
C1_NonStringVersionRejected ==
    \A c \in Calls :
        (call[c].tool \in VersionTools /\ ~isinstance_str(call[c].args.version))
        => /\ sent[c] = 0
           /\ request[c] = NoRequest
           /\ pc[c] = "done" => result[c].kind = "raise" /\ result[c].exc = "TypeError"

UpstreamFailed(o) ==
    \/ o.kind \in {"ClientError", "TimeoutError"}
    \/ /\ o.kind = "response"
       /\ \/ o.status >= 400
          \/ o.body = BodyHtml

\* C3: every upstream failure (transport failure including a timeout, status
\* >= 400, undecodable body) ends the tool call with a returned text or with
\* an McpError; no exception of the upstream request leaves the handler.
C3_UpstreamFailuresCaught ==
    \A c \in Calls :
        (pc[c] = "done" /\ call[c].tool \in SessionTools \cup {"call_tool"}
            /\ UpstreamFailed(response[c]))
        => \/ result[c].kind = "return"
           \/ result[c].kind = "raise" /\ result[c].exc = "McpError"

\* the call was turned down before the network: a TypeError for the version,
\* INVALID_PARAMS in the stdio host, or a bulk-load payload that is not JSON
RejectedEarly(c) ==
    \/ result[c].kind = "raise" /\ result[c].exc = "TypeError"
                                /\ response[c] = NoResponse
    \/ result[c].kind = "raise" /\ result[c].exc = "McpError"
                                /\ result[c].code = "INVALID_PARAMS"
    \/ call[c].tool = "load_versions"
        /\ call[c].args.releases \in {<< "not json" >>, << "[" >> \o Release, << >>}

\* C4: a call issues at most one HTTP request: exactly one once an outcome
\* (a response or a failure) has come back, none when the call was turned
\* down by validation or by the parsing of the bulk-load payload.
C4_OneAttempt ==
    \A c \in Calls :
        /\ sent[c] <= 1
        /\ pc[c] = "awaiting" => sent[c] = 1
        /\ (pc[c] = "done" /\ response[c] # NoResponse) => sent[c] = 1
        /\ (pc[c] = "done" /\ RejectedEarly(c)) => sent[c] = 0

\* a call has ended after its one request failed with status 500
C4_Witness ==
    \E c \in Calls :
        /\ pc[c] = "done"
        /\ response[c].kind = "response"
        /\ response[c].status = 500
        /\ sent[c] = 1

\* C5: the HTTP client of a call is open exactly while the call awaits its
\* response; when no call is in flight no client is open, whatever the
\* outcomes of the calls were.
C5_ClientReleased ==
    /\ \A c \in Calls : c \in open <=> pc[c] = "awaiting"
    /\ (\A c \in Calls : pc[c] # "awaiting") => open = {}

\* a call whose request timed out has ended and its client is closed
C5_Witness ==
    \E c \in Calls :
        /\ pc[c] = "done"
        /\ sent[c] = 1
        /\ response[c].kind = "TimeoutError"
        /\ result[c].kind = "raise"
        /\ c \notin open

\* the configuration the specification asks for: credential and base URL
\* present, one of the two transports, a port in 1..65535
ConfigAsRequired ==
    /\ config.api_key \notin {None, PyStr("")}
    /\ config.base_url # PyStr("")
    /\ config.transport \in {PyStr("sse"), PyStr("stdio")}
    /\ config.port.n >= 1 /\ config.port.n <= 65535

\* C6: in the session host no tool call is served, and no session identifier
\* exists, unless the configuration is valid; with an invalid configuration
\* the server never gets to serve.
C6_ValidatedBeforeServing ==
    host = "session" =>
        /\ (\E c \in Calls : call[c] # NoCall) => ConfigAsRequired /\ server = "serving"
        /\ session_id # None => ConfigAsRequired /\ server = "serving"
        /\ ~ConfigAsRequired => server \in {"starting", "aborted"}
        /\ server = "serving" => session_id # None

\* startup has aborted on a port out of range, everything else being valid;
\* no call was served and no session identifier generated
C6_Witness ==
    /\ host = "session"
    /\ server = "aborted"
    /\ config.api_key = PyStr("secret")
    /\ config.base_url = PyStr("https://api.opsify.dev")
    /\ config.transport = PyStr("sse")
    /\ config.port = PyInt(65536)
    /\ session_id = None
    /\ \A c \in Calls : call[c] = NoCall

InvalidPayloads == { << "not json" >>, << "[" >> \o Release, << >> }

\* C7: load_versions with a payload that is not JSON returns the invalid-JSON
\* error text and issues no request.
C7_InvalidJsonBeforeNetwork ==
    \A c \in Calls :
        (call[c].tool = "load_versions" /\ call[c].args.releases \in InvalidPayloads)
        => /\ pc[c] = "done"
           /\ sent[c] = 0
           /\ request[c] = NoRequest
           /\ response[c] = NoResponse
           /\ result[c] = [kind |-> "return",
                           text |-> << "Error: Invalid JSON format - Expecting value" >>]

\* load_versions has ended on a truncated array
C7_Witness ==
    \E c \in Calls :
        /\ call[c].tool = "load_versions"
        /\ call[c].args.releases = << "[" >> \o Release
        /\ pc[c] = "done"
        /\ result[c].kind = "return"

\* C8: for each of the three payload shapes load_versions sends POST to
\* {release_endpoint}/load with the parsed payload as the body, not reshaped:
\* the array stays an array of its elements, the bare object stays an object
\* without a `releases` key, the wrapper stays an object with the one key
\* `releases` holding the array; the body's JSON text is the payload's.
C8_BulkLoadForwardedUnchanged ==
    \A c \in Calls :
        (call[c].tool = "load_versions"
            /\ call[c].args.releases \in {PayloadArray, PayloadObject, PayloadWrapped})
        => /\ pc[c] \in {"awaiting", "done"}
           /\ sent[c] = 1
           /\ request[c].method = "POST"
           /\ request[c].url = fstr(config.base_url) \o "/checks/release/load"
           /\ request[c].params = None
           /\ json_dumps(request[c].json) = call[c].args.releases
           /\ call[c].args.releases = PayloadArray =>
                request[c].json.t = "list" /\ Len(request[c].json.elems) = 2
           /\ call[c].args.releases = PayloadObject =>
                /\ request[c].json.t = "dict"
                /\ \A i \in 1 .. Len(request[c].json.items) :
                        request[c].json.items[i][1] # "releases"
           /\ call[c].args.releases = PayloadWrapped =>
                /\ request[c].json.t = "dict"
                /\ Len(request[c].json.items) = 1
                /\ request[c].json.items[1][1] = "releases"
                /\ request[c].json.items[1][2].t = "list"

\* load_versions awaits the response to the wrapped payload it has sent
C8_Witness ==
    \E c \in Calls :
        /\ call[c].tool = "load_versions"
        /\ call[c].args.releases = PayloadWrapped
        /\ pc[c] = "awaiting"
        /\ request[c].method = "POST"

\* the optional filters of each tool that sends a query map
FilterKeys(tool) ==
    CASE tool \in {"search_cve", "call_tool"} ->
            { "cve_id", "title", "state", "priority", "severity", "score",
              "product_name", "product_version", "vendor", "from_date", "to_date" }
      [] tool = "search_releases" ->
            {"vendor", "product_name", "from_date", "to_date"}
      [] tool \in {"get_all_versions", "get_all_latest_versions"} ->
            {"product_name", "vendor"}
      [] OTHER -> {}

VendorLookups ==
    {"get_latest_version", "get_versions", "get_specific_version", "get_version_cves"}

\* the path of a version lookup, without any query
LookupPath(cl) ==
    "/checks/release/" \o cl.args.product_name
    \o ( CASE cl.tool = "get_latest_version" -> "/latest"
           [] cl.tool = "get_versions" -> ""
           [] cl.tool = "get_specific_version" -> "/" \o cl.args.version.s
           [] cl.tool = "get_version_cves" -> "/" \o cl.args.version.s \o "/cves" )

\* the caller left filter k of call c unset
Unset(c, k) == k \notin DOMAIN call[c].supplied \/ call[c].supplied[k] = None

\* C9: a filter left unset is not a key of the outgoing query, and no key of
\* the query carries None; a version lookup without a vendor sends its path
\* with no query at all.
C9_UnsetFiltersOmitted ==
    \A c \in Calls :
        request[c] # NoRequest =>
            /\ \A k \in FilterKeys(call[c].tool) :
                    Unset(c, k) => k \notin DOMAIN request[c].params
            /\ FilterKeys(call[c].tool) # {} =>
                    \A k \in DOMAIN request[c].params : request[c].params[k] # None
            /\ (call[c].tool \in VendorLookups /\ call[c].args.vendor = None) =>
                    /\ request[c].params = None
                    /\ request[c].url = fstr(config.base_url) \o LookupPath(call[c])

\* a CVE search with no argument at all has sent a query of skip and limit only
C9_Witness ==
    \E c \in Calls :
        /\ call[c].tool = "search_cve"
        /\ DOMAIN call[c].supplied = {}
        /\ pc[c] = "awaiting"
        /\ DOMAIN request[c].params = {"skip", "limit"}

\* C10: delete_version sends DELETE {release_endpoint}/{product}/{version},
\* and for every response with a 2xx status it returns the constructed
\* success envelope, whatever the body of the response is.
C10_DeleteEnvelopeOn2xx ==
    \A c \in Calls :
        (call[c].tool = "delete_version" /\ request[c] # NoRequest) =>
            /\ request[c].method = "DELETE"
            /\ request[c].url = fstr(config.base_url) \o "/checks/release/"
                    \o call[c].args.product_name \o "/" \o fstr(call[c].args.version)
            /\ (pc[c] = "done" /\ response[c].kind = "response"
                    /\ response[c].status >= 200 /\ response[c].status < 300)
               => result[c] =
                    [kind |-> "return",
                     text |-> << "{", "\"status\"", ":", "\"success\"", ",",
                                 "\"message\"", ":",
                                 "\"Version " \o fstr(call[c].args.version)
                                    \o " of product " \o call[c].args.product_name
                                    \o " deleted successfully\"", "}" >>]

\* the value is of the type the parameter model declares for field k
\* (cve_id .. to_date: text; score: a number; skip, limit: an integer)
OfDeclaredType(k, v) ==
    CASE k \in {"skip", "limit"} -> v.t = "int"
      [] k = "score" -> v.t \in {"int", "float"}
      [] OTHER -> v.t = "str"

\* the arguments of call c fail validation: some field carries a value that
\* is neither null nor of the declared type
FailsValidation(c) ==
    \E k \in DOMAIN call[c].supplied :
        call[c].supplied[k] # None /\ ~OfDeclaredType(k, call[c].supplied[k])

\* C11: in the stdio host, arguments that fail validation end the call with
\* an McpError of code INVALID_PARAMS and no request is issued; a request is
\* issued only for arguments that passed validation; and once a request was
\* issued, an upstream failure ends the call with an McpError of code
\* INTERNAL_ERROR.
C11_InvalidParamsBeforeAdapter ==
    \A c \in Calls :
        call[c].tool = "call_tool" =>
            /\ FailsValidation(c) =>
                    /\ pc[c] = "done"
                    /\ sent[c] = 0
                    /\ request[c] = NoRequest
                    /\ result[c].kind = "raise"
                    /\ result[c].exc = "McpError"
                    /\ result[c].code = "INVALID_PARAMS"
            /\ request[c] # NoRequest => ~FailsValidation(c)
            /\ (pc[c] = "done" /\ response[c] # NoResponse
                    /\ UpstreamFailed(response[c]))
               => /\ result[c].kind = "raise"
                  /\ result[c].exc = "McpError"
                  /\ result[c].code = "INTERNAL_ERROR"

\* the stdio host has turned down a call whose limit is a word
C11_Witness ==
    \E c \in Calls :
        /\ call[c].tool = "call_tool"
        /\ call[c].supplied = [limit |-> PyStr("ten")]
        /\ pc[c] = "done"
        /\ result[c].kind = "raise"
        /\ result[c].code = "INVALID_PARAMS"
        /\ sent[c] = 0

\* the stdio host's call has ended on a 2xx response with this body
Rendered(c, body) ==
    /\ call[c].tool = "call_tool"
    /\ pc[c] = "done"
    /\ response[c].kind = "response"
    /\ response[c].status >= 200 /\ response[c].status < 300
    /\ response[c].body = body

\* C12: in the stdio host an empty upstream result is answered with exactly
\* one text content holding the sentinel; a result of n CVEs is answered with
\* one text content holding the count and n blocks separated by a blank
\* line, each with the lines CVE ID, Title, Score, State, Published, Vendor,
\* Description, References in this order (an absent field written as None,
\* the references joined by ", ").
C12_SummaryRendering ==
    \A c \in Calls :
        /\ Rendered(c, BodyEmptyList) =>
                result[c] = [kind |-> "return", content |->
                    << [type |-> "text",
                        text |-> "No CVEs found for the given criteria."] >>]
        /\ Rendered(c, BodyCVEs) =>
                result[c] = [kind |-> "return", content |->
                    << [type |-> "text", text |->
                        "Found 1 CVEs:\nCVE ID: CVE-2024-0001\nTitle: None\nScore: None\nState: None\nPublished: None\nVendor: None\nDescription: None\nReferences: https://nvd"] >>]
        /\ Rendered(c, BodyTwoCVEs) =>
                result[c] = [kind |-> "return", content |->
                    << [type |-> "text", text |->
                        "Found 2 CVEs:\nCVE ID: CVE-2024-0001\nTitle: None\nScore: None\nState: None\nPublished: None\nVendor: None\nDescription: None\nReferences: https://nvd\n\nCVE ID: CVE-2024-0002\nTitle: None\nScore: 3\nState: None\nPublished: None\nVendor: None\nDescription: None\nReferences: "] >>]

\* the stdio host has answered a result of two CVEs
C12_Witness ==
    \E c \in Calls :
        /\ Rendered(c, BodyTwoCVEs)
        /\ response[c].status = 200
        /\ result[c].kind = "return"
        /\ Len(result[c].content) = 1

\* the value of `key` in a JSON object, Missing when the key is absent
Missing == [t |-> "missing"]
Member(obj, key) ==
    IF \E i \in 1 .. Len(obj.items) : obj.items[i][1] = key
    THEN obj.items[CHOOSE i \in 1 .. Len(obj.items) : obj.items[i][1] = key][2]
    ELSE Missing

\* what the caller of call c supplied for k, None when nothing
SuppliedOrNone(c, k) ==
    IF k \in DOMAIN call[c].supplied THEN call[c].supplied[k] ELSE None

ReturnedJson(c) ==
    /\ response[c].kind = "response"
    /\ response[c].status < 400
    /\ response[c].content_type = "application/json"
    /\ json_loads(response[c].body).ok

FiltersInQuery(c) ==
    \A k \in FilterKeys(call[c].tool) :
        ~Unset(c, k) =>
            /\ k \in DOMAIN request[c].params
            /\ request[c].params[k] = call[c].supplied[k]

\* the searches of the session host go to {endpoint}/search
SessionSearchEndpoint(c) ==
    /\ (call[c].tool = "search_releases" /\ request[c] # NoRequest) =>
            /\ request[c].method = "GET"
            /\ request[c].url = fstr(config.base_url) \o "/checks/release/search"
            /\ FiltersInQuery(c)
    /\ (call[c].tool = "search_cve" /\ request[c] # NoRequest) =>
            /\ request[c].method = "GET"
            /\ request[c].url = fstr(config.base_url) \o "/checks/cve/search"
            /\ FiltersInQuery(c)

\* C15: the search for releases and the search for CVEs issue GET to the
\* releases endpoint resp. the CVE endpoint followed by /search, with the
\* provided filters in the query, in the session host and in the stdio host.
C15_SearchEndpoint ==
    \A c \in Calls :
        /\ SessionSearchEndpoint(c)
        /\ (call[c].tool = "call_tool" /\ request[c] # NoRequest) =>
                /\ request[c].method = "GET"
                /\ request[c].url = "https://api.opsify.dev/checks/cve/search"
                /\ FiltersInQuery(c)

\* the caller of call c supplied none of the keys ks
Omitted(c, ks) == ks \cap DOMAIN call[c].supplied = {}

\* what is written into the query string for key k of call c's request
OnTheWire(c, k) ==
    IF k \in DOMAIN request[c].params THEN fstr(request[c].params[k]) ELSE "absent"

\* the pagination defaults of the session host
SessionPaginationDefaults(c) ==
    /\ (call[c].tool = "search_cve" /\ request[c] # NoRequest
            /\ Omitted(c, {"skip", "limit"}))
       => OnTheWire(c, "skip") = "0" /\ OnTheWire(c, "limit") = "100"
    /\ (call[c].tool \in {"get_all_versions", "get_all_latest_versions",
                           "search_releases"}
            /\ request[c] # NoRequest /\ Omitted(c, {"page", "page_size"}))
       => OnTheWire(c, "page") = "1" /\ OnTheWire(c, "page_size") = "100"

\* C16: without pagination arguments the CVE search sends skip=0 and
\* limit=100, in the session host and in the stdio host alike, and the
\* paginated listings send page=1 and page_size=100.
C16_PaginationDefaults ==
    \A c \in Calls :
        /\ SessionPaginationDefaults(c)
        /\ (call[c].tool = "call_tool" /\ request[c] # NoRequest
                /\ Omitted(c, {"skip", "limit"}))
           => OnTheWire(c, "skip") = "0" /\ OnTheWire(c, "limit") = "100"

\* string s starts with string p
StartsWith(s, p) == Len(s) >= Len(p) /\ SubSeq(s, 1, Len(p)) = p

\* call c ended with the one-line error text that starts with `prefix`
EndedWithError(c, prefix) ==
    /\ result[c].kind = "return"
    /\ Len(result[c].text) = 1
    /\ StartsWith(result[c].text[1], prefix)

\* the failures the wrapper classifies as the claim says: a client error of
\* the transport, a status >= 400, and a body that is not JSON inside a
\* response declared as JSON
ClassifiedAsSpecified(c) ==
    /\ response[c].kind = "ClientError" =>
            EndedWithError(c, "Error: Network error: ")
    /\ (response[c].kind = "response" /\ response[c].status >= 400) =>
            result[c] = [kind |-> "return",
                         text |-> << "Error: API Error "
                                     \o ToString(response[c].status) \o ": "
                                     \o Concat(response[c].body) >>]
    /\ (response[c].kind = "response" /\ response[c].status < 400
            /\ response[c].content_type = "application/json"
            /\ response[c].body = BodyHtml) =>
            EndedWithError(c, "Error: Invalid JSON response: ")

\* C17: a call of a session-host tool whose request failed ends in exactly
\* the kind the failure has: a transport failure (a timeout included) in a
\* network error; a status >= 400 in the upstream-status error with the
\* status and the body, whatever the body is; a status < 400 with a body
\* that is not valid JSON in a decode error.
C17_FailureClassification ==
    \A c \in Calls :
        (pc[c] = "done" /\ call[c].tool \in SessionTools
            /\ response[c] # NoResponse)
        => /\ ClassifiedAsSpecified(c)
           /\ response[c].kind = "TimeoutError" =>
                EndedWithError(c, "Error: Network error: ")
           /\ (response[c].kind = "response" /\ response[c].status < 400
                    /\ ~json_loads(response[c].body).ok) =>
                EndedWithError(c, "Error: Invalid JSON response: ")

\* C19: the stdio host's call handler treats a call under any name as the
\* CVE search: with arguments that pass validation the call issues the CVE
\* search request, with arguments that fail it the call ends with the
\* validation error, and a call that a response came back for ends as the
\* response decides; no call is turned down for its name.
C19_ToolNameIgnored ==
    \A c \in Calls :
        (call[c].tool = "call_tool" /\ call[c].args.name # "search_cve") =>
            /\ ~FailsValidation(c) =>
                    /\ pc[c] \in {"awaiting", "done"}
                    /\ sent[c] = 1
                    /\ request[c].method = "GET"
                    /\ request[c].url = "https://api.opsify.dev/checks/cve"
                    /\ pc[c] = "done" => response[c] # NoResponse
            /\ FailsValidation(c) =>
                    /\ result[c].kind = "raise"
                    /\ result[c].msg = "validation error for SearchCVEParams"
            /\ Rendered(c, BodyEmptyList) =>
                    /\ result[c].kind = "return"
                    /\ result[c].content[1].text
                            = "No CVEs found for the given criteria."

\* a call under the name get_latest_version has been answered with the
\* summary of a CVE search
C19_Witness ==
    \E c \in Calls :
        /\ call[c].tool = "call_tool"
        /\ call[c].args.name = "get_latest_version"
        /\ Rendered(c, BodyCVEs)
        /\ result[c].kind = "return"
        /\ StartsWith(result[c].content[1].text, "Found 1 CVEs:")

\* everything the model keeps for call c
Own(c) ==
    << pc[c], call[c], request[c], sent[c], response[c], result[c], c \in open >>

\* what a call ends with, told from its own outcome
ExpectedResult(o) ==
    IF o.kind = "TimeoutError" THEN [kind |-> "raise", exc |-> "TimeoutError", msg |-> ""]
    ELSE IF o.status = 404
    THEN [kind |-> "return",
          text |-> << "Error: API Error 404: " \o Concat(o.body) >>]
    ELSE [kind |-> "return", text |-> o.body]

\* ?vendor=... when the call names a vendor
VendorQuery(cl) ==
    IF cl.args.vendor = PyStr("NGINX Inc") THEN "?vendor=NGINX Inc" ELSE ""

\* the URL a call requests, told from its own arguments
ExpectedUrl(cl) ==
    fstr(config.base_url) \o "/checks/release/" \o cl.args.product_name
    \o ( CASE cl.tool = "get_latest_version" -> "/latest"
           [] cl.tool = "get_specific_version" -> "/" \o fstr(cl.args.version)
           [] cl.tool = "get_version_cves" -> "/" \o fstr(cl.args.version) \o "/cves" )
    \o VendorQuery(cl)

\* each call has its own client, open exactly while the call awaits, and its
\* own request and result
EachCallItsOwn ==
    \A c \in Calls :
        /\ c \in open <=> pc[c] = "awaiting"
        /\ request[c] # NoRequest =>
                /\ request[c].method = "GET"
                /\ request[c].url = ExpectedUrl(call[c])
        /\ (pc[c] = "done" /\ response[c] # NoResponse) =>
                result[c] = ExpectedResult(response[c])
        /\ (pc[c] = "done" /\ response[c] = NoResponse) =>
                /\ result[c].kind = "raise" /\ result[c].exc = "TypeError"
                /\ ~isinstance_str(call[c].args.version)

\* a step in which call c does not move changes nothing of call c, and a
\* step of a call changes nothing that the calls share
NothingShared ==
    /\ \A c \in Calls : pc'[c] = pc[c] => Own(c)' = Own(c)
    /\ (\E c \in Calls : pc'[c] # pc[c]) =>
            UNCHANGED << host, config, server, session_id >>

\* C18: with several session-host calls in flight, interleaved at their
\* network suspension points, each call has its own client and its own
\* request and response, its result is the one its own arguments and its
\* own response give, and no step of one call changes anything of another
\* call or anything shared.
C18_CallsIndependent == []EachCallItsOwn /\ [][NothingShared]_vars

\* a lookup of one version has ended on a 404 while a lookup of the latest
\* version by another call still awaits its response, with its client the
\* only one open
C18_Witness ==
    \E c, d \in Calls :
        /\ c # d
        /\ call[c].tool = "get_specific_version"
        /\ pc[c] = "done"
        /\ response[c].kind = "response" /\ response[c].status = 404
        /\ call[d].tool = "get_latest_version"
        /\ pc[d] = "awaiting"
        /\ open = {d}
====
